---- MODULE Spec2Model ----
(***************************************************************************)
(* Event bus (EventManager.py) and game engine (Model.py).                 *)
(*                                                                         *)
(* EventManager.post is a synchronous loop over the listener list; a       *)
(* notify that posts re-enters post on the same call stack.  The model     *)
(* keeps that call stack explicitly (calls): one frame per post in         *)
(* progress, holding the event and the number of listeners its loop has    *)
(* already notified.  One step of the model is one listener.notify call.   *)
(* The engine's handlers post only as their last statement, so a handler   *)
(* and the post call it ends with form one step; the broadcast that post   *)
(* starts proceeds in the following steps, on top of the outer frame.      *)
(*                                                                         *)
(* Const.py is not part of the sources; its values are modelled from the   *)
(* specification's list of configuration constants, scaled to a small      *)
(* integer arena (positions are pygame Vector2 floats in the program; the  *)
(* model keeps integer coordinates and an integer step per move).          *)
(***************************************************************************)
EXTENDS Integers, Sequences, FiniteSets, TLC

VARIABLES
    listeners,   \* EventManager.listeners
    calls,       \* the Python call stack of post() invocations in progress
    statestack,  \* StateMachine.statestack
    attrs,       \* instance attributes of the engine that have been assigned
    timer,       \* GameEngine.timer
    running,     \* GameEngine.running
    roll,        \* GameEngine.roll
    players,     \* GameEngine.players
    runpc,       \* position of GameEngine.run
    raised,      \* an exception left the last top-level call
    log,         \* post/notify calls of the current top-level post, in order
    pre,         \* engine fields when the current top-level post was made
    obs,         \* run() bookkeeping: Quit handled since run() began (quit) or
                 \* before it (early), EveryTick posts made after the Quit (ticks);
                 \* odd: an odd number of ChangePosition handled since the last
                 \* Initialize; unreg: the last unregister_listener call, as
                 \* <<listener, listener list before the call>>
    smcall,      \* last StateMachine method called directly, with argument
    ret          \* its return value

vars == <<listeners, calls, statestack, attrs, timer, running, roll, players,
          runpc, raised, log, pre, obs, smcall, ret>>

----------------------------------------------------------------------------
(* Bounds of the model *)

MaxListeners == 3   \* entries of the listener list
MaxStack == 2       \* height of the state stack
MaxDepth == 2       \* posts in progress on the call stack made by listeners
MaxPosts == 2       \* posts recorded per top-level post
MaxTicks == 2       \* cap of the counter of ticks posted after stop

----------------------------------------------------------------------------
(* Const.py: configuration values *)

STATE_POP == "POP"
STATE_MENU == "MENU"
STATE_PLAY == "PLAY"
STATE_STOP == "STOPPED"
STATE_ENDGAME == "ENDGAME"
SceneTokens == {STATE_MENU, STATE_PLAY, STATE_STOP, STATE_ENDGAME}
StateTokens == SceneTokens \cup {STATE_POP}

FPS == 1
GAME_LENGTH == 2
ARENA_SIZE == <<4, 2>>
PLAYER_RADIUS == 1
SPEED_ATTACK == 2
SPEED_DEFENSE == 1
PLAYER_INIT_POSITION == << <<1, 1>>, <<3, 1>> >>
Directions == {"up", "down", "left", "right"}
DIRECTION_TO_VEC2 ==
    [d \in Directions |->
        CASE d = "up" -> <<0, -1>>
          [] d = "down" -> <<0, 1>>
          [] d = "left" -> <<-1, 0>>
          [] d = "right" -> <<1, 0>>]

----------------------------------------------------------------------------
(* Events (EventManager.py) *)

EventInitialize == <<"Initialize">>
EventQuit == <<"Quit">>
EventPause == <<"Pause">>
EventContinue == <<"Continue">>
EventStateChange(state) == <<"StateChange", state>>
EventEveryTick == <<"EveryTick">>
EventTimesUp == <<"TimesUp">>
EventChangePosition == <<"ChangePosition">>
EventPlayerMove(player_id, direction) == <<"PlayerMove", player_id, direction>>

PlainEvents == {EventInitialize, EventQuit, EventPause, EventContinue,
                EventEveryTick, EventTimesUp, EventChangePosition}
StateChangeEvents == {EventStateChange(s) : s \in StateTokens}
PlayerMoveEvents == {EventPlayerMove(i, d) : i \in {0, 1}, d \in Directions}

----------------------------------------------------------------------------
(* Python values and list indexing *)

None == "None"

Min(a, b) == IF a < b THEN a ELSE b
Max(a, b) == IF a > b THEN a ELSE b

\* position of Python index k (negative counts from the end) in a list, 0-based
ListPos(lst, k) == IF k < 0 THEN Len(lst) + k ELSE k
\* lst[k] raises IndexError
IndexError(lst, k) == ListPos(lst, k) < 0 \/ ListPos(lst, k) >= Len(lst)
ListGet(lst, k) == lst[ListPos(lst, k) + 1]
ListDropLast(lst) == SubSeq(lst, 1, Len(lst) - 1)

----------------------------------------------------------------------------
(* StateMachine: each method gives the new stack and the returned value *)

peek(stack) ==
    IF IndexError(stack, -1)
    THEN [statestack |-> stack, ret |-> None]
    ELSE [statestack |-> stack, ret |-> ListGet(stack, -1)]

\* pop that returns the top and leaves it on the stack
pop_keep(stack) ==
    IF IndexError(stack, -1)
    THEN [statestack |-> stack, ret |-> None]
    ELSE [statestack |-> stack, ret |-> ListGet(stack, -1)]

pop(stack) ==
    IF IndexError(stack, -1)
    THEN [statestack |-> stack, ret |-> None]
    ELSE [statestack |-> ListDropLast(stack), ret |-> ListGet(stack, -1)]

\* push that overwrites the top
push_overwrite(stack, state) ==
    [statestack |-> IF stack = <<>> THEN <<state>>
                    ELSE [stack EXCEPT ![Len(stack)] = state],
     ret |-> state]

push(stack, state) ==
    [statestack |-> Append(stack, state), ret |-> state]

clear(stack) ==
    [statestack |-> <<>>, ret |-> None]

----------------------------------------------------------------------------
(* Player *)

\* Player with the attack speed given to player 0
Player_attack_zero(player_id) ==
    [player_id |-> player_id,
     position |-> PLAYER_INIT_POSITION[player_id + 1],
     speed |-> IF player_id = 0 THEN SPEED_ATTACK ELSE SPEED_DEFENSE]

Player(player_id) ==
    [player_id |-> player_id,
     position |-> PLAYER_INIT_POSITION[player_id + 1],
     speed |-> IF player_id = 1 THEN SPEED_ATTACK ELSE SPEED_DEFENSE]

\* move_direction that clips x only
move_direction_clip_x(p, direction) ==
    LET step == p.speed \div FPS
        x == p.position[1] + step * DIRECTION_TO_VEC2[direction][1]
        y == p.position[2] + step * DIRECTION_TO_VEC2[direction][2]
    IN [p EXCEPT !.position = <<Max(0, Min(ARENA_SIZE[1], x)), y>>]

move_direction(p, direction) ==
    LET step == p.speed \div FPS
        x == p.position[1] + step * DIRECTION_TO_VEC2[direction][1]
        y == p.position[2] + step * DIRECTION_TO_VEC2[direction][2]
    IN [p EXCEPT !.position =
            <<Max(0, Min(ARENA_SIZE[1], x)), Max(0, Min(ARENA_SIZE[2], y))>>]

----------------------------------------------------------------------------
(* GameEngine: the fields a handler may change, as a record *)

Engine ==
    [statestack |-> statestack, attrs |-> attrs, timer |-> timer,
     running |-> running, roll |-> roll, players |-> players]

\* a handler's outcome: the fields, the events it posts, whether it raised
Done(e) == [eng |-> e, posts |-> <<>>, raise |-> FALSE]
Posting(e, ev) == [eng |-> e, posts |-> <<ev>>, raise |-> FALSE]
Raise(e) == [eng |-> e, posts |-> <<>>, raise |-> TRUE]

\* initialize that starts from an empty stack
initialize_clear(e) ==
    [e EXCEPT !.statestack = push(clear(e.statestack).statestack, STATE_MENU).statestack,
              !.roll = <<0, 1>>,
              !.players = <<Player(0), Player(1)>>,
              !.attrs = e.attrs \cup {"clock", "roll", "players"}]

initialize(e) ==
    [e EXCEPT !.statestack = push(e.statestack, STATE_MENU).statestack,
              !.roll = <<0, 1>>,
              !.players = <<Player(0), Player(1)>>,
              !.attrs = e.attrs \cup {"clock", "roll", "players"}]

\* change_position that leaves the countdown where it is
change_position_keep_timer(e) ==
    IF "roll" \notin e.attrs
    THEN Raise(e)
    ELSE LET r == <<e.roll[2], e.roll[1]>>
         IN Done([e EXCEPT !.roll = r,
                           !.players = <<Player(r[1]), Player(r[2])>>])

\* change_position that exchanges the roles and keeps the player objects
change_position_keep_players(e) ==
    IF "roll" \notin e.attrs
    THEN Raise(e)
    ELSE Done([e EXCEPT !.roll = <<e.roll[2], e.roll[1]>>,
                        !.timer = GAME_LENGTH,
                        !.attrs = e.attrs \cup {"timer"}])

\* change_position that rebuilds the players without exchanging the roles
change_position_no_swap(e) ==
    IF "roll" \notin e.attrs
    THEN Raise(e)
    ELSE Done([e EXCEPT !.players = <<Player(e.roll[1]), Player(e.roll[2])>>,
                        !.timer = GAME_LENGTH,
                        !.attrs = e.attrs \cup {"timer"}])

change_position(e) ==
    IF "roll" \notin e.attrs
    THEN Raise(e)
    ELSE LET r == <<e.roll[2], e.roll[1]>>
         IN Done([e EXCEPT !.roll = r,
                           !.players = <<Player(r[1]), Player(r[2])>>,
                           !.timer = GAME_LENGTH,
                           !.attrs = e.attrs \cup {"timer"}])

\* the square of distance(player1, player2)
distance2(player1, player2) ==
    (player1.position[1] - player2.position[1]) ^ 2
    + (player1.position[2] - player2.position[2]) ^ 2

\* the comparison with <= in place of <
collides_or_touches(ps) == distance2(ps[1], ps[2]) <= (2 * PLAYER_RADIUS) ^ 2

\* sqrt(d2) < 2 * PLAYER_RADIUS, compared on the squares
collides(ps) == distance2(ps[1], ps[2]) < (2 * PLAYER_RADIUS) ^ 2

check_collision(e) ==
    IF collides(e.players) THEN Posting(e, EventQuit) ELSE Done(e)

\* an EveryTick handler that counts down in every scene but the menu
on_every_tick_any_scene(e) ==
    LET cur_state == peek(e.statestack).ret
    IN IF cur_state = STATE_MENU \/ cur_state = None THEN Done(e)
       ELSE IF "timer" \notin e.attrs THEN Raise(e)
            ELSE LET e1 == [e EXCEPT !.timer = e.timer - 1]
                 IN IF e1.timer = 0 THEN Posting(e1, EventChangePosition)
                    ELSE Done(e1)

on_every_tick(e) ==
    LET cur_state == peek(e.statestack).ret
    IN IF cur_state = STATE_MENU THEN Done(e)
       ELSE IF cur_state = STATE_PLAY THEN
            IF "timer" \notin e.attrs THEN Raise(e)
            ELSE LET e1 == [e EXCEPT !.timer = e.timer - 1]
                 IN IF e1.timer = 0 THEN Posting(e1, EventChangePosition)
                    ELSE Done(e1)
       ELSE Done(e)

\* a StateChange handler without the POP branch
on_state_change_push_any(e, state) ==
    Done([e EXCEPT !.statestack = push(e.statestack, state).statestack])

on_state_change(e, state) ==
    IF state = STATE_POP
    THEN LET r == pop(e.statestack)
             e1 == [e EXCEPT !.statestack = r.statestack]
         IN IF r.ret = None THEN Posting(e1, EventQuit) ELSE Done(e1)
    ELSE Done([e EXCEPT !.statestack = push(e.statestack, state).statestack])

\* a Quit handler that leaves running alone
on_quit_ignored(e) == Done(e)

on_quit(e) ==
    Done([e EXCEPT !.running = FALSE, !.attrs = e.attrs \cup {"running"}])

on_times_up(e) ==
    Done([e EXCEPT !.statestack = push(e.statestack, STATE_ENDGAME).statestack])

\* a Pause handler that replaces the current state by STOPPED
on_pause_replace(e) ==
    Done([e EXCEPT !.statestack =
              push(pop(e.statestack).statestack, STATE_STOP).statestack])

on_pause(e) ==
    Done([e EXCEPT !.statestack = push(e.statestack, STATE_STOP).statestack])

\* a Continue handler that ends the game when nothing was left to pop
on_continue_quit_on_empty(e) ==
    LET r == pop(e.statestack)
        e1 == [e EXCEPT !.statestack = r.statestack]
    IN IF r.ret = None THEN Posting(e1, EventQuit) ELSE Done(e1)

on_continue(e) ==
    Done([e EXCEPT !.statestack = pop(e.statestack).statestack])

\* a PlayerMove handler that acts only while PLAY is on top
on_player_move_only_in_play(e, player_id, direction) ==
    IF "players" \notin e.attrs THEN Raise(e)
    ELSE IF peek(e.statestack).ret # STATE_PLAY THEN Done(e)
    ELSE check_collision(
            [e EXCEPT !.players[player_id + 1] =
                          move_direction(e.players[player_id + 1], direction)])

on_player_move(e, player_id, direction) ==
    IF "players" \notin e.attrs THEN Raise(e)
    ELSE check_collision(
            [e EXCEPT !.players[player_id + 1] =
                          move_direction(e.players[player_id + 1], direction)])

notify(e, event) ==
    CASE event[1] = "Initialize" -> Done(initialize(e))
      [] event[1] = "EveryTick" -> on_every_tick(e)
      [] event[1] = "StateChange" -> on_state_change(e, event[2])
      [] event[1] = "Quit" -> on_quit(e)
      [] event[1] = "PlayerMove" -> on_player_move(e, event[2], event[3])
      [] event[1] = "TimesUp" -> on_times_up(e)
      [] event[1] = "Pause" -> on_pause(e)
      [] event[1] = "Continue" -> on_continue(e)
      [] event[1] = "ChangePosition" -> change_position(e)
      [] OTHER -> Done(e)

----------------------------------------------------------------------------
(* EventManager *)

\* post with a loop that starts at the second listener
post_skip_first(cs, event) == Append(cs, [ev |-> event, i |-> 1, d |-> Len(cs) + 1])
\* post that queues the event behind the posts in progress
post_queued(cs, event) == <<[ev |-> event, i |-> 0, d |-> Len(cs) + 1]>> \o cs

\* post(event) entered with call stack cs: a new loop over the listeners, on top
post(cs, event) == Append(cs, [ev |-> event, i |-> 0, d |-> Len(cs) + 1])

Top == calls[Len(calls)]
Idle == calls = <<>> /\ runpc = "idle"

PostEntry(who, depth, event) ==
    [op |-> "post", d |-> depth, i |-> 0, l |-> who, ev |-> event]
NotifyEntry(f) ==
    [op |-> "notify", d |-> f.d, i |-> f.i + 1, l |-> listeners[f.i + 1], ev |-> f.ev]
PostCount == Cardinality({k \in DOMAIN log : log[k].op = "post"})
\* the posts in progress and the posts recorded that the engine did not make:
\* the frame above frame k - 1 was posted by the listener frame k - 1 is at
OuterDepth ==
    Cardinality({k \in DOMAIN calls :
                    k = 1 \/ listeners[calls[k - 1].i] # "engine"})
OuterPostCount ==
    Cardinality({k \in DOMAIN log : log[k].op = "post" /\ log[k].l # "engine"})

\* events whose handler pushes a state, and the pushes still to come from the
\* posts in progress (the stack height is kept within MaxStack)
Pushes(event) ==
    \/ event \in {EventInitialize, EventTimesUp, EventPause}
    \/ event[1] = "StateChange" /\ event[2] # STATE_POP
EnginePos == CHOOSE k \in DOMAIN listeners : listeners[k] = "engine"
PendingPushes ==
    Cardinality({k \in DOMAIN calls : Pushes(calls[k].ev) /\ calls[k].i < EnginePos})
Postable(event) ==
    Pushes(event) => Len(statestack) + PendingPushes < MaxStack

\* a top-level caller (a test, or run) calls post(event)
BeginPost(who, event) ==
    /\ calls' = post(<<>>, event)
    /\ log' = <<PostEntry(who, 1, event)>>
    /\ pre' = Engine
    /\ raised' = FALSE

register_listener(L) ==
    /\ Idle
    /\ Len(listeners) < MaxListeners
    /\ \E l \in L : listeners' = Append(listeners, l)
    /\ log' = <<>>    \* the log of the last post was read against the old list
    /\ UNCHANGED <<calls, statestack, attrs, timer, running, roll, players,
                   runpc, raised, pre, obs, smcall, ret>>

\* unregister_listener that removes the first entry equal to the listener
unregistered_removed(ls, listener) ==
    IF \E k \in DOMAIN ls : ls[k] = listener
    THEN LET k == CHOOSE k \in DOMAIN ls :
                      ls[k] = listener /\ \A j \in 1..(k - 1) : ls[j] # listener
         IN SubSeq(ls, 1, k - 1) \o SubSeq(ls, k + 1, Len(ls))
    ELSE ls

\* the listener list after unregister_listener(listener): the body is pass
unregistered(ls, listener) == ls

unregister_listener(L) ==
    /\ Idle
    /\ \E l \in L :
          /\ listeners' = unregistered(listeners, l)
          /\ obs' = [obs EXCEPT !.unreg = <<l, listeners>>]
    /\ log' = <<>>
    /\ UNCHANGED <<calls, statestack, attrs, timer, running, roll, players,
                   runpc, raised, pre, smcall, ret>>

driver_post(E) ==
    /\ Idle
    /\ \E event \in E : Postable(event) /\ BeginPost("driver", event)
    /\ UNCHANGED <<listeners, statestack, attrs, timer, running, roll, players,
                   runpc, obs, smcall, ret>>

\* the loop of post reaches the engine: GameEngine.notify(event)
post_notify_engine ==
    /\ calls # <<>>
    /\ Top.i < Len(listeners)
    /\ listeners[Top.i + 1] = "engine"
    /\ LET f == Top
           out == notify(Engine, f.ev)
           advanced == [calls EXCEPT ![Len(calls)].i = f.i + 1]
       IN IF out.raise
          THEN /\ calls' = <<>>
               /\ raised' = TRUE
               /\ runpc' = IF runpc = "idle" THEN "idle" ELSE "raised"
               /\ log' = Append(log, NotifyEntry(f))
               /\ UNCHANGED <<statestack, attrs, timer, running, roll, players, obs>>
          ELSE /\ statestack' = out.eng.statestack
               /\ attrs' = out.eng.attrs
               /\ timer' = out.eng.timer
               /\ running' = out.eng.running
               /\ roll' = out.eng.roll
               /\ players' = out.eng.players
               /\ calls' = IF out.posts = <<>> THEN advanced
                           ELSE post(advanced, out.posts[1])
               /\ log' = IF out.posts = <<>> THEN Append(log, NotifyEntry(f))
                         ELSE log \o <<NotifyEntry(f),
                                       PostEntry("engine", Len(calls) + 1, out.posts[1])>>
               /\ obs' = [obs EXCEPT
                            !.quit = @ \/ (f.ev = EventQuit /\ runpc # "idle"),
                            !.odd = IF f.ev = EventInitialize THEN FALSE
                                    ELSE IF f.ev = EventChangePosition THEN ~@
                                    ELSE @]
               /\ UNCHANGED <<raised, runpc>>
    /\ UNCHANGED <<listeners, pre, smcall, ret>>

\* the loop of post reaches another listener, which records the event
post_notify_listener ==
    /\ calls # <<>>
    /\ Top.i < Len(listeners)
    /\ listeners[Top.i + 1] # "engine"
    /\ calls' = [calls EXCEPT ![Len(calls)].i = Top.i + 1]
    /\ log' = Append(log, NotifyEntry(Top))
    /\ UNCHANGED <<listeners, statestack, attrs, timer, running, roll, players,
                   runpc, raised, pre, obs, smcall, ret>>

\* the listener being notified posts an event from inside its notify
listener_post(E) ==
    /\ calls # <<>>
    /\ Top.i >= 1
    /\ listeners[Top.i] # "engine"
    /\ OuterDepth < MaxDepth
    /\ OuterPostCount < MaxPosts
    /\ \E event \in E :
          /\ Postable(event)
          /\ calls' = post(calls, event)
          /\ log' = Append(log, PostEntry(listeners[Top.i], Len(calls) + 1, event))
    /\ UNCHANGED <<listeners, statestack, attrs, timer, running, roll, players,
                   runpc, raised, pre, obs, smcall, ret>>

\* the loop of post is exhausted: post returns to its caller
post_return ==
    /\ calls # <<>>
    /\ Top.i = Len(listeners)
    /\ calls' = ListDropLast(calls)
    /\ UNCHANGED <<listeners, statestack, attrs, timer, running, roll, players,
                   runpc, raised, log, pre, obs, smcall, ret>>

----------------------------------------------------------------------------
(* GameEngine.run *)

\* a loop that never tests running
loop_forever(e) == TRUE

loop_condition(e) == e.running

run_start ==
    /\ Idle
    /\ running' = TRUE
    /\ attrs' = attrs \cup {"running"}
    /\ runpc' = "init"
    /\ obs' = [obs EXCEPT !.quit = FALSE, !.ticks = 0,
                           !.early = "running" \in attrs]
    /\ calls' = post(<<>>, EventInitialize)
    /\ log' = <<PostEntry("run", 1, EventInitialize)>>
    /\ pre' = [Engine EXCEPT !.running = TRUE, !.attrs = attrs \cup {"running"}]
    /\ raised' = FALSE
    /\ UNCHANGED <<listeners, statestack, timer, roll, players, smcall, ret>>

run_set_timer ==
    /\ runpc = "init"
    /\ calls = <<>>
    /\ timer' = GAME_LENGTH
    /\ attrs' = attrs \cup {"timer"}
    /\ runpc' = "loop"
    /\ UNCHANGED <<listeners, calls, statestack, running, roll, players,
                   raised, log, pre, obs, smcall, ret>>

run_loop ==
    /\ runpc = "loop"
    /\ calls = <<>>
    /\ IF loop_condition(Engine)
       THEN /\ BeginPost("run", EventEveryTick)
            /\ runpc' = "tick"
            /\ obs' = IF obs.quit
                      THEN [obs EXCEPT !.ticks = Min(MaxTicks, obs.ticks + 1)]
                      ELSE obs
       ELSE /\ runpc' = "done"
            /\ UNCHANGED <<calls, log, pre, raised, obs>>
    /\ UNCHANGED <<listeners, statestack, attrs, timer, running, roll, players,
                   smcall, ret>>

run_clock_tick ==
    /\ runpc = "tick"
    /\ calls = <<>>
    /\ IF "clock" \in attrs
       THEN runpc' = "loop" /\ UNCHANGED raised
       ELSE runpc' = "raised" /\ raised' = TRUE
    /\ UNCHANGED <<listeners, calls, statestack, attrs, timer, running, roll,
                   players, log, pre, obs, smcall, ret>>

----------------------------------------------------------------------------
(* StateMachine called directly *)

sm_call(name, r) ==
    /\ statestack' = r.statestack
    /\ ret' = r.ret
    /\ smcall' = name
    /\ UNCHANGED <<listeners, calls, attrs, timer, running, roll, players,
                   runpc, raised, log, pre, obs>>

sm_push ==
    /\ Len(statestack) < MaxStack
    /\ \E s \in StateTokens : sm_call(<<"push", s>>, push(statestack, s))
sm_pop == sm_call(<<"pop">>, pop(statestack))
sm_peek == sm_call(<<"peek">>, peek(statestack))
sm_clear == sm_call(<<"clear">>, clear(statestack))

----------------------------------------------------------------------------
(* Specifications *)

InitListeners == {<<"engine">>, <<"A", "engine">>}

Init ==
    /\ listeners \in InitListeners
    /\ calls = <<>>
    /\ statestack = <<>>
    /\ attrs = {}
    /\ timer = 0
    /\ running = FALSE
    /\ roll = <<>>
    /\ players = <<>>
    /\ runpc = "idle"
    /\ raised = FALSE
    /\ log = <<>>
    /\ pre = [statestack |-> <<>>, attrs |-> {}, timer |-> 0, running |-> FALSE,
              roll |-> <<>>, players |-> <<>>]
    /\ obs = [quit |-> FALSE, ticks |-> 0, early |-> FALSE, odd |-> FALSE,
              unreg |-> <<>>]
    /\ smcall = <<>>
    /\ ret = None

\* the bus, with listeners that post from inside notify
BusDriverEvents == {EventInitialize, EventEveryTick, EventChangePosition,
                    EventStateChange(STATE_PLAY), EventStateChange(STATE_POP)}
BusListenerEvents == {EventQuit, EventStateChange(STATE_POP)}
Next ==
    \/ register_listener({"B"})
    \/ driver_post(BusDriverEvents)
    \/ post_notify_engine
    \/ post_notify_listener
    \/ listener_post(BusListenerEvents)
    \/ post_return
Spec == Init /\ [][Next]_vars

\* the engine driven event by event, the other listeners only recording
QuietEvents == PlainEvents \cup StateChangeEvents
NextQuiet ==
    \/ register_listener({"A"})
    \/ driver_post(QuietEvents)
    \/ post_notify_engine
    \/ post_notify_listener
    \/ post_return
SpecQuiet == Init /\ [][NextQuiet]_vars

\* the players moved event by event, the other listeners only recording
MoveEvents == {EventInitialize, EventChangePosition} \cup PlayerMoveEvents
NextMove ==
    \/ driver_post(MoveEvents)
    \/ post_notify_engine
    \/ post_notify_listener
    \/ post_return
SpecMove == Init /\ [][NextMove]_vars

\* run(), with listeners that post from inside notify
RunListenerEvents == {EventQuit, EventStateChange(STATE_PLAY),
                      EventStateChange(STATE_POP)}
NextRun ==
    \/ register_listener({"A"})
    \/ driver_post({EventQuit})
    \/ run_start
    \/ run_set_timer
    \/ run_loop
    \/ run_clock_tick
    \/ post_notify_engine
    \/ post_notify_listener
    \/ listener_post(RunListenerEvents)
    \/ post_return
SpecRun == Init /\ [][NextRun]_vars
SpecRunFair ==
    /\ SpecRun
    /\ WF_vars(run_set_timer) /\ WF_vars(run_loop) /\ WF_vars(run_clock_tick)
    /\ WF_vars(post_notify_engine) /\ WF_vars(post_notify_listener)
    /\ WF_vars(post_return)

\* every scene together with movement along the x axis
SceneEvents == {EventInitialize, EventChangePosition, EventEveryTick,
                EventStateChange(STATE_PLAY), EventTimesUp, EventPause,
                EventContinue}
                \cup {EventPlayerMove(i, d) : i \in {0, 1}, d \in {"left", "right"}}
NextScene ==
    \/ driver_post(SceneEvents)
    \/ post_notify_engine
    \/ post_notify_listener
    \/ post_return
SpecScene == Init /\ [][NextScene]_vars

\* the bus with listeners that are registered and unregistered between posts
UnregDriverEvents == {EventInitialize, EventQuit, EventStateChange(STATE_POP)}
NextUnreg ==
    \/ register_listener({"B"})
    \/ unregister_listener({"A", "B", "engine"})
    \/ driver_post(UnregDriverEvents)
    \/ post_notify_engine
    \/ post_notify_listener
    \/ post_return
SpecUnreg == Init /\ [][NextUnreg]_vars

\* run(), with listeners that post the events of a round from inside notify
TimerListenerEvents == {EventEveryTick, EventChangePosition,
                        EventStateChange(STATE_PLAY), EventStateChange(STATE_POP),
                        EventPause, EventContinue, EventTimesUp,
                        EventPlayerMove(1, "left")}
NextTimer ==
    \/ run_start
    \/ run_set_timer
    \/ run_loop
    \/ run_clock_tick
    \/ post_notify_engine
    \/ post_notify_listener
    \/ listener_post(TimerListenerEvents)
    \/ post_return
SpecTimer == Init /\ [][NextTimer]_vars

\* the state stack on its own
NextSM == sm_push \/ sm_pop \/ sm_peek \/ sm_clear
SpecSM == Init /\ [][NextSM]_vars

----------------------------------------------------------------------------
(* Reading the log *)

IsPost(k) == log[k].op = "post"
IsNotify(k) == log[k].op = "notify"

\* the notify calls made by the loop of the post recorded at position k
NotifyIdx(k) ==
    {j \in DOMAIN log :
        /\ j > k
        /\ IsNotify(j)
        /\ log[j].d = log[k].d
        /\ \A m \in (k + 1)..(j - 1) : ~(IsPost(m) /\ log[m].d <= log[k].d)}
Nth(S, n) == CHOOSE j \in S : Cardinality({x \in S : x <= j}) = n
NotifiedSeq(k) ==
    [n \in 1..Cardinality(NotifyIdx(k)) |-> log[Nth(NotifyIdx(k), n)]]

\* the post recorded at position k has not returned yet
InProgress(k) ==
    /\ log[k].d <= Len(calls)
    /\ \A m \in (k + 1)..Len(log) : ~(IsPost(m) /\ log[m].d = log[k].d)

\* the top-level post of the event has returned normally
Returned(event) ==
    /\ calls = <<>>
    /\ ~raised
    /\ log # <<>>
    /\ log[1].ev = event

PostsOf(event) == Cardinality({k \in DOMAIN log : IsPost(k) /\ log[k].ev = event})

\* this step is GameEngine.notify(event)
EngineStep(event) ==
    /\ calls # <<>>
    /\ Len(log') > Len(log)
    /\ SubSeq(log', 1, Len(log)) = log
    /\ log'[Len(log) + 1] =
          [op |-> "notify", d |-> Top.d, i |-> Top.i + 1, l |-> "engine", ev |-> event]
\* ... and the handler posted nothing / posted the event
StepPostsNothing == Len(log') = Len(log) + 1
StepPosts(event) ==
    /\ Len(log') = Len(log) + 2
    /\ log'[Len(log')].op = "post"
    /\ log'[Len(log')].l = "engine"
    /\ log'[Len(log')].ev = event

----------------------------------------------------------------------------
\* C1: one post(e) calls notify(e) once per entry of the listener list, in the
\* order of the list: the notify calls of every post recorded are a prefix of
\* the listener list, entry by entry, and the whole list once the post has
\* returned; an entry that occurs k times in the list is notified k times.
C1_RegistrationOrder ==
    \A k \in DOMAIN log :
        IsPost(k) =>
            LET S == NotifyIdx(k)
            IN /\ Cardinality(S) <= Len(listeners)
               /\ \A j \in S :
                     LET n == Cardinality({x \in S : x <= j})   \* j is the n-th call
                     IN /\ log[j].i = n
                        /\ log[j].l = listeners[n]
                        /\ log[j].ev = log[k].ev
               /\ (~InProgress(k) /\ ~raised) => Cardinality(S) = Len(listeners)

\* a returned post with a listener registered twice, notified twice
C1_Witness ==
    /\ calls = <<>> /\ ~raised /\ log # <<>>
    /\ listeners = <<"engine", "B", "B">>
    /\ Len(NotifiedSeq(1)) = 3
    /\ NotifiedSeq(1)[2].l = "B" /\ NotifiedSeq(1)[3].l = "B"

\* C2: posting is synchronous and recursive: once a post is made from inside a
\* notify, every listener is notified of its event before anything happens at
\* an outer level (the outer post notifying its next listener included).
C2_NestedPostFirst ==
    \A k \in DOMAIN log :
        IsPost(k) =>
            \A m \in (k + 1)..Len(log) :
                log[m].d < log[k].d =>
                    Cardinality({j \in NotifyIdx(k) : j < m}) = Len(listeners)

\* StateChange(POP) on an empty stack: the engine posts Quit, and a listener
\* registered after the engine receives Quit before the StateChange itself
C2_Witness ==
    \E k \in DOMAIN log : \E m \in DOMAIN log : \E j \in DOMAIN log :
        /\ log[k] = PostEntry("engine", 2, EventQuit)
        /\ j > k /\ j < m
        /\ log[j].op = "notify" /\ log[j].d = 2 /\ log[j].l = "B"
        /\ log[j].ev = EventQuit
        /\ log[m].op = "notify" /\ log[m].d = 1 /\ log[m].l = "B"
        /\ log[m].ev = EventStateChange(STATE_POP)

\* C3 (as claimed): when the engine handles StateChange(POP) with exactly one
\* element on the stack, it posts Quit.
C3_QuitOnLastPop ==
    [][(EngineStep(EventStateChange(STATE_POP)) /\ Len(statestack) = 1)
          => StepPosts(EventQuit)]_vars

\* C4: StateChange(s), s not POP, appends s to the stack; StateChange(POP) on a
\* stack of two or more removes the top only and posts nothing; EveryTick with
\* PLAY on top (timer initialised) decrements timer by one.
C4_StateChange ==
    [][/\ \A s \in SceneTokens :
             EngineStep(EventStateChange(s)) =>
                 /\ statestack' = statestack \o <<s>>
                 /\ StepPostsNothing
       /\ (EngineStep(EventStateChange(STATE_POP)) /\ Len(statestack) >= 2) =>
             /\ statestack' = SubSeq(statestack, 1, Len(statestack) - 1)
             /\ StepPostsNothing
       /\ (/\ EngineStep(EventEveryTick)
           /\ statestack # <<>>
           /\ statestack[Len(statestack)] = STATE_PLAY
           /\ "timer" \in attrs) =>
             /\ timer' = timer - 1
             /\ statestack' = statestack]_vars

\* [MENU, PLAY], then StateChange(POP): [MENU] and no Quit
C4_Witness ==
    /\ Returned(EventStateChange(STATE_POP))
    /\ pre.statestack = <<STATE_MENU, STATE_PLAY>>
    /\ statestack = <<STATE_MENU>>
    /\ PostsOf(EventQuit) = 0

----------------------------------------------------------------------------
Clip(v, hi) == IF v < 0 THEN 0 ELSE IF v > hi THEN hi ELSE v
TopIs(stack, token) == stack # <<>> /\ stack[Len(stack)] = token

\* C5: with PLAY on top and timer = t, an EveryTick post posts no
\* ChangePosition and leaves timer = t - 1 and roll alone while t > 1, and for
\* t = 1 posts exactly one ChangePosition, after which (the post returned)
\* timer is GAME_LENGTH and roll[0], roll[1] are exchanged.  From timer = T
\* this gives T - 1 ticks without ChangePosition and one with the T-th.
C5_TimerSwap ==
    (/\ Returned(EventEveryTick)
     /\ "timer" \in pre.attrs
     /\ TopIs(pre.statestack, STATE_PLAY)) =>
        IF pre.timer = 1
        THEN /\ PostsOf(EventChangePosition) = 1
             /\ timer = GAME_LENGTH
             /\ roll = <<pre.roll[2], pre.roll[1]>>
             /\ roll # pre.roll
        ELSE /\ PostsOf(EventChangePosition) = 0
             /\ timer = pre.timer - 1
             /\ timer >= 1
             /\ roll = pre.roll

\* the tick that brings timer from 1 to 0: swap done, timer restarted
C5_Witness ==
    /\ Returned(EventEveryTick)
    /\ TopIs(pre.statestack, STATE_PLAY)
    /\ "timer" \in pre.attrs /\ pre.timer = 1
    /\ PostsOf(EventChangePosition) = 1
    /\ timer = GAME_LENGTH
    /\ pre.roll = <<0, 1>> /\ roll = <<1, 0>>

SquaredDistance ==
    (players[1].position[1] - players[2].position[1]) ^ 2
    + (players[1].position[2] - players[2].position[2]) ^ 2

\* C6: a PlayerMove post posts exactly one Quit when, after the move and the
\* clipping, the players are closer than 2 * PLAYER_RADIUS, and none otherwise
\* (distances compared on their squares).
C6_CollisionQuit ==
    \A event \in PlayerMoveEvents :
        Returned(event) =>
            PostsOf(EventQuit) =
                IF SquaredDistance < (2 * PLAYER_RADIUS) * (2 * PLAYER_RADIUS)
                THEN 1 ELSE 0

\* a move that brings the players into contact: one Quit, running cleared
C6_Witness ==
    /\ \E event \in PlayerMoveEvents : Returned(event)
    /\ PostsOf(EventQuit) = 1
    /\ SquaredDistance < (2 * PLAYER_RADIUS) * (2 * PLAYER_RADIUS)
    /\ "running" \in attrs /\ ~running

\* C7: once the players exist every position lies in the arena, and a
\* PlayerMove post leaves players[id] at its old position plus speed / FPS
\* along the direction, each coordinate clipped on its own, and the other
\* player where it was.
C7_Clamping ==
    /\ "players" \in attrs =>
          \A n \in 1..2 :
              /\ players[n].position[1] \in 0..ARENA_SIZE[1]
              /\ players[n].position[2] \in 0..ARENA_SIZE[2]
    /\ \A id \in {0, 1} : \A dir \in Directions :
          Returned(EventPlayerMove(id, dir)) =>
              LET old == pre.players[id + 1]
                  step == old.speed \div FPS
                  vec == DIRECTION_TO_VEC2[dir]
              IN /\ players[id + 1].position =
                        <<Clip(old.position[1] + step * vec[1], ARENA_SIZE[1]),
                          Clip(old.position[2] + step * vec[2], ARENA_SIZE[2])>>
                 /\ players[2 - id] = pre.players[2 - id]

\* a move that would leave the arena across y = 0, clipped in y alone
C7_Witness ==
    \E id \in {0, 1} :
        /\ Returned(EventPlayerMove(id, "up"))
        /\ pre.players[id + 1].position[2]
              - pre.players[id + 1].speed \div FPS < 0
        /\ players[id + 1].position[2] = 0
        /\ players[id + 1].position[1] = pre.players[id + 1].position[1]

----------------------------------------------------------------------------
InRun == runpc \in {"init", "loop", "tick"}
\* the post made by run() has returned and run() has not moved on yet
RunPostReturned == runpc \in {"init", "tick"} /\ calls = <<>> /\ log # <<>>

\* C8: a Quit handled during a broadcast made by run() does not cut that
\* broadcast short: when the post returns, every listener has been notified of
\* its event, running being false; and run() posts at most one more EveryTick
\* after running became false.
C8_QuitAtLoopTop ==
    /\ obs.ticks <= 1
    /\ (RunPostReturned /\ obs.quit) =>
          /\ ~running
          /\ Len(NotifiedSeq(1)) = Len(listeners)
          /\ \A n \in 1..Len(listeners) :
                /\ NotifiedSeq(1)[n].l = listeners[n]
                /\ NotifiedSeq(1)[n].ev = log[1].ev

\* the engine handled Quit in the middle of an EveryTick broadcast, and the
\* listener registered after it was still notified of that EveryTick
C8_Witness ==
    /\ runpc = "tick" /\ calls = <<>> /\ ~running
    /\ \E j \in DOMAIN log : \E m \in DOMAIN log :
          /\ j < m
          /\ log[j].op = "notify" /\ log[j].l = "engine" /\ log[j].ev = EventQuit
          /\ log[m].op = "notify" /\ log[m].l = "A" /\ log[m].d = 1
          /\ log[m].ev = EventEveryTick
          /\ listeners[log[m].i - 1] = "engine"

Terminated == runpc \in {"done", "raised"}

\* C9: run() sets running and posts Initialize first; it leaves its loop only
\* if the engine handled a Quit after run() set running (one handled earlier
\* is overwritten), and if the engine handles one, run() ends; inside run()
\* running, once false, stays false.
C9_RunTermination ==
    /\ [](runpc = "done" => (obs.quit /\ ~running))
    /\ []((runpc = "init" /\ Len(log) = 1) =>
             (running /\ log[1].ev = EventInitialize /\ ~obs.quit))
    /\ [][(InRun /\ ~running) => ~running']_vars
    /\ [][(InRun /\ running /\ ~running') => EngineStep(EventQuit)]_vars
    /\ ((InRun /\ obs.quit) ~> Terminated)

\* run() ended after a Quit, although another Quit had been handled before
\* run() was called
C9_Witness ==
    /\ runpc = "done"
    /\ obs.quit
    /\ obs.early
    /\ ~running

----------------------------------------------------------------------------
\* C10: StateMachine against a sequence: push(s) appends s and returns it;
\* pop() removes and returns the last element; peek() returns it and leaves
\* the stack alone; clear() empties the stack; pop() and peek() on the empty
\* stack return None, which is no state token, and leave the stack empty.
C10_StackRefinement ==
    [][LET n == Len(statestack)
       IN CASE smcall'[1] = "push" ->
                 /\ statestack' = statestack \o <<smcall'[2]>>
                 /\ ret' = smcall'[2]
            [] smcall'[1] = "pop" ->
                 IF n = 0
                 THEN statestack' = <<>> /\ ret' = None /\ ret' \notin StateTokens
                 ELSE /\ statestack' = [k \in 1..(n - 1) |-> statestack[k]]
                      /\ ret' = statestack[n]
            [] smcall'[1] = "peek" ->
                 /\ statestack' = statestack
                 /\ IF n = 0 THEN ret' = None /\ ret' \notin StateTokens
                    ELSE ret' = statestack[n]
            [] smcall'[1] = "clear" -> statestack' = <<>>]_vars

\* a pop that returned the token on top of a stack of two
C10_Witness ==
    /\ smcall = <<"pop">>
    /\ ret \in StateTokens
    /\ Len(statestack) = 1

----------------------------------------------------------------------------
\* C11: the POP sentinel is never on the state stack: whatever events the
\* engine has handled (StateChange with any token, POP included), every element
\* of the stack is one of MENU, PLAY, ENDGAME, STOPPED.
C11_PopNeverStacked ==
    \A k \in DOMAIN statestack : statestack[k] \in SceneTokens

\* StateChange(POP) handled on [ENDGAME, STOPPED]: the top went, nothing came
C11_Witness ==
    /\ Returned(EventStateChange(STATE_POP))
    /\ pre.statestack = <<STATE_ENDGAME, STATE_STOP>>
    /\ statestack = <<STATE_ENDGAME>>

----------------------------------------------------------------------------
\* C13: handling Continue removes the top element whatever it is, posts
\* nothing (no Quit), raises no error and leaves running alone; on an empty
\* stack the stack stays empty.
C13_ContinuePops ==
    [][EngineStep(EventContinue) =>
          /\ statestack' = IF statestack = <<>> THEN <<>>
                           ELSE SubSeq(statestack, 1, Len(statestack) - 1)
          /\ StepPostsNothing
          /\ ~raised'
          /\ running' = running
          /\ attrs' = attrs]_vars

\* Continue on [MENU]: the stack is empty and no Quit was posted
C13_Witness ==
    /\ Returned(EventContinue)
    /\ pre.statestack = <<STATE_MENU>>
    /\ statestack = <<>>
    /\ PostsOf(EventQuit) = 0
    /\ running = pre.running

----------------------------------------------------------------------------
\* C14: a Pause post on stack S leaves S followed by STOPPED and nothing else
\* changed; a Continue post on S followed by STOPPED leaves exactly S and
\* timer, roll, players unchanged; an EveryTick post with STOPPED on top
\* leaves timer, roll, players and the stack unchanged.
C14_PauseContinue ==
    /\ Returned(EventPause) =>
          /\ statestack = pre.statestack \o <<STATE_STOP>>
          /\ <<timer, roll, players, running, attrs>> =
                <<pre.timer, pre.roll, pre.players, pre.running, pre.attrs>>
    /\ (Returned(EventContinue) /\ TopIs(pre.statestack, STATE_STOP)) =>
          /\ pre.statestack = statestack \o <<STATE_STOP>>
          /\ <<timer, roll, players, running, attrs>> =
                <<pre.timer, pre.roll, pre.players, pre.running, pre.attrs>>
    /\ (Returned(EventEveryTick) /\ TopIs(pre.statestack, STATE_STOP)) =>
          /\ statestack = pre.statestack
          /\ <<timer, roll, players, running, attrs>> =
                <<pre.timer, pre.roll, pre.players, pre.running, pre.attrs>>

\* Continue on [PLAY, STOPPED] in the middle of a round: [PLAY], timer still 1
C14_Witness ==
    /\ Returned(EventContinue)
    /\ pre.statestack = <<STATE_PLAY, STATE_STOP>>
    /\ statestack = <<STATE_PLAY>>
    /\ "timer" \in attrs /\ timer = 1 /\ pre.timer = 1

----------------------------------------------------------------------------
\* C15: an EveryTick handled with PLAY on top (timer initialised) decrements
\* timer by exactly one and posts ChangePosition exactly when the result is 0,
\* posting nothing otherwise; with any other top or an empty stack it changes
\* nothing and posts nothing; it never changes the stack.
C15_EveryTickOnlyInPlay ==
    [][EngineStep(EventEveryTick) =>
          /\ statestack' = statestack
          /\ (TopIs(statestack, STATE_PLAY) /\ "timer" \in attrs) =>
                /\ timer' = timer - 1
                /\ IF timer' = 0 THEN StepPosts(EventChangePosition)
                   ELSE StepPostsNothing
                /\ UNCHANGED <<roll, players, running, attrs>>
          /\ ~TopIs(statestack, STATE_PLAY) =>
                /\ UNCHANGED <<timer, roll, players, running, attrs>>
                /\ StepPostsNothing
                /\ ~raised']_vars

\* EveryTick with ENDGAME on top of PLAY, timer 1: nothing moved
C15_Witness ==
    /\ Returned(EventEveryTick)
    /\ pre.statestack = <<STATE_PLAY, STATE_ENDGAME>>
    /\ "timer" \in pre.attrs /\ pre.timer = 1
    /\ timer = 1
    /\ PostsOf(EventChangePosition) = 0

----------------------------------------------------------------------------
----------------------------------------------------------------------------
\* the player object the code builds for a player id
FreshPlayer(id) ==
    [player_id |-> id,
     position |-> PLAYER_INIT_POSITION[id + 1],
     speed |-> IF id = 1 THEN SPEED_ATTACK ELSE SPEED_DEFENSE]
HasMoved(ps) == \E n \in 1..2 : ps[n] # FreshPlayer(ps[n].player_id)

\* C16: an Initialize post on stack S leaves S followed by MENU ([MENU] on a
\* fresh engine), roll = [0, 1], players[0] and players[1] with ids 0 and 1
\* at their start positions, and timer and running as they were.
C16_Initialize ==
    Returned(EventInitialize) =>
        /\ statestack = pre.statestack \o <<STATE_MENU>>
        /\ pre.statestack = <<>> => statestack = <<STATE_MENU>>
        /\ roll = <<0, 1>>
        /\ \A id \in {0, 1} :
              /\ players[id + 1].player_id = id
              /\ players[id + 1].position = PLAYER_INIT_POSITION[id + 1]
        /\ timer = pre.timer
        /\ running = pre.running
        /\ \A a \in {"timer", "running"} : (a \in attrs) = (a \in pre.attrs)

\* Initialize in the middle of a game: [PLAY] with the roles exchanged, a
\* player moved, timer 1 and running cleared
C16_Witness ==
    /\ Returned(EventInitialize)
    /\ pre.statestack = <<STATE_PLAY>> /\ statestack = <<STATE_PLAY, STATE_MENU>>
    /\ "roll" \in pre.attrs /\ pre.roll = <<1, 0>> /\ roll = <<0, 1>>
    /\ HasMoved(pre.players) /\ ~HasMoved(players)
    /\ "timer" \in pre.attrs /\ pre.timer = 1 /\ timer = 1
    /\ "running" \in pre.attrs /\ ~pre.running /\ ~running

----------------------------------------------------------------------------
\* C17: the engine handling ChangePosition (roll exists), under any top and
\* posted by anyone, exchanges roll[0] and roll[1], replaces both players by
\* fresh ones for their new ids, sets timer to GAME_LENGTH, leaves the stack
\* and running alone, raises nothing and posts nothing; doing it again would
\* give the old roll back.
C17_ChangePosition ==
    [][(EngineStep(EventChangePosition) /\ "roll" \in attrs) =>
          /\ roll' = <<roll[2], roll[1]>>
          /\ <<roll'[2], roll'[1]>> = roll
          /\ players' = <<FreshPlayer(roll'[1]), FreshPlayer(roll'[2])>>
          /\ timer' = GAME_LENGTH /\ "timer" \in attrs'
          /\ statestack' = statestack
          /\ running' = running
          /\ ("running" \in attrs') = ("running" \in attrs)
          /\ StepPostsNothing
          /\ ~raised']_vars

\* ChangePosition posted while paused, after a move and a tick, for the
\* second time since Initialize
C17_Witness ==
    /\ Returned(EventChangePosition)
    /\ TopIs(pre.statestack, STATE_STOP) /\ statestack = pre.statestack
    /\ HasMoved(pre.players) /\ ~HasMoved(players)
    /\ "timer" \in pre.attrs /\ pre.timer = 1 /\ timer = GAME_LENGTH
    /\ pre.roll = <<1, 0>> /\ roll = <<0, 1>> /\ ~obs.odd
    /\ Len(log) = 1 + Len(listeners)

----------------------------------------------------------------------------
\* C18: once roll exists it is a permutation of [0, 1], players[i] has
\* player_id roll[i], and a player has the attack speed exactly when its
\* player_id is 1; after an odd number of ChangePosition since Initialize the
\* engine handling PlayerMove(id, dir) moves the list entry id, whose
\* player_id is 1 - id, and leaves the other entry alone.
C18_RoleIndex ==
    /\ []("roll" \in attrs =>
            /\ roll \in {<<0, 1>>, <<1, 0>>}
            /\ "players" \in attrs
            /\ \A n \in 1..2 :
                  /\ players[n].player_id = roll[n]
                  /\ (players[n].speed = SPEED_ATTACK) = (players[n].player_id = 1)
                  /\ (players[n].speed = SPEED_DEFENSE) = (players[n].player_id = 0))
    /\ [][\A id \in {0, 1} : \A dir \in {"left", "right"} :
             (EngineStep(EventPlayerMove(id, dir)) /\ obs.odd /\ ~raised') =>
                 /\ players[id + 1].player_id = 1 - id
                 /\ players'[id + 1] = move_direction(players[id + 1], dir)
                 /\ players'[id + 1].player_id = 1 - id
                 /\ players'[2 - id] = players[2 - id]]_vars

\* PlayerMove(0, right) after one ChangePosition: the attacker (player_id 1,
\* list entry 0) moved from x = 3 to the wall
C18_Witness ==
    /\ Returned(EventPlayerMove(0, "right"))
    /\ obs.odd /\ roll = <<1, 0>>
    /\ pre.players[1] = FreshPlayer(1)
    /\ players[1].player_id = 1
    /\ players[1].position = <<ARENA_SIZE[1], PLAYER_INIT_POSITION[2][2]>>
    /\ players[2] = pre.players[2]

----------------------------------------------------------------------------
\* C20: a PlayerMove post (players exist) under any top or an empty stack
\* moves players[id], leaves the other player, the stack, roll and timer as
\* they were, and posts one Quit exactly when the players then collide.
C20_MoveAnyScene ==
    \A id \in {0, 1} : \A dir \in {"left", "right"} :
        Returned(EventPlayerMove(id, dir)) =>
            /\ players[id + 1] = move_direction(pre.players[id + 1], dir)
            /\ players[2 - id] = pre.players[2 - id]
            /\ statestack = pre.statestack
            /\ roll = pre.roll
            /\ timer = pre.timer
            /\ ("timer" \in attrs) = ("timer" \in pre.attrs)
            /\ PostsOf(EventQuit) =
                  IF SquaredDistance < (2 * PLAYER_RADIUS) * (2 * PLAYER_RADIUS)
                  THEN 1 ELSE 0

\* a collision while paused: Quit posted, running cleared, STOPPED still on top
C20_Witness ==
    /\ \E id \in {0, 1} : \E dir \in {"left", "right"} :
          Returned(EventPlayerMove(id, dir))
    /\ TopIs(pre.statestack, STATE_STOP) /\ statestack = pre.statestack
    /\ players # pre.players
    /\ PostsOf(EventQuit) = 1
    /\ ~running

----------------------------------------------------------------------------
\* run() has assigned timer and nothing was raised since
TimerSet == runpc \in {"loop", "tick", "done"} /\ "timer" \in attrs /\ ~raised
\* a ChangePosition posted by the engine's EveryTick handler is in progress
\* and the engine has not handled it yet
SwapPending ==
    \E k \in 2..Len(calls) :
        /\ calls[k].ev = EventChangePosition
        /\ calls[k].i < EnginePos
        /\ calls[k - 1].ev = EventEveryTick
        /\ listeners[calls[k - 1].i] = "engine"

=============================================================================
